---- MODULE Spec2Model ----
(***************************************************************************)
(* Model of generatorder.py: load_traits_info (row checks, whitelist       *)
(* compilation, weight normalisation), generate_inscriptions (the per-item *)
(* attempt loop with the constrained weighted sampler, the duplicate check *)
(* and validate_traits) and validate_inscription_avoidance (the audit run  *)
(* by main on the returned collection).                                    *)
(*                                                                         *)
(* Representation.                                                         *)
(*  - A spreadsheet row is [number, type, name, rarity, blacklist,         *)
(*    whitelist]; rarity is <<>> for a blank cell and <<r>> for the number *)
(*    r.  Rows are numbered 1..n in row order, as create_spreadsheet       *)
(*    writes them, names are unique within a type and list entries name    *)
(*    existing rows.                                                       *)
(*  - all_traits_info is the sequence of TraitInfo objects in insertion    *)
(*    order.  A row is skipped as soon as one error has been recorded, so  *)
(*    the objects are a prefix of the rows and trait_number_mapping[n] is  *)
(*    all_traits_info[n].                                                  *)
(*  - A normalised weight raw/total is kept as the pair [num, den].        *)
(*  - sha256 over the string of the (type, name) list is taken to be       *)
(*    collision free: a hash is the list of (type, name) pairs itself.     *)
(***************************************************************************)
EXTENDS Integers, Sequences, FiniteSets, TLC

VARIABLES
    rows,                     \* the spreadsheet rows read by load_traits_info
    set_order,                \* iteration order of a Python set of ints
    num_inscriptions,         \* answer to get_positive_integer
    pc,                       \* position of main / generate_inscriptions
    errors,                   \* load_traits_info: errors
    all_traits_info,          \* the catalog (TraitInfo objects)
    traits_usage,             \* trait number -> "count"
    generated_hashes,
    trait_count_distribution,
    inscription_collection,
    items_done,               \* iterations of the for loop completed
    generation_attempts,
    trait_types,              \* shuffled groups still to visit in this attempt
    inscription_traits,       \* trait numbers selected in this attempt
    formatted_traits,
    current_avoid_list,
    valid_combination,
    halted_early,             \* returned through line 341
    traits_usage_statistics,
    inconsistencies           \* result of validate_inscription_avoidance

vars == <<rows, set_order, num_inscriptions, pc, errors, all_traits_info,
          traits_usage, generated_hashes, trait_count_distribution,
          inscription_collection, items_done, generation_attempts,
          trait_types, inscription_traits, formatted_traits,
          current_avoid_list, valid_combination, halted_early,
          traits_usage_statistics, inconsistencies>>

(***************************************************************************)
(* Bounds of the model.                                                    *)
(***************************************************************************)
\* The attempt ceiling of line 337 is 10000; the model runs it scaled down.
AttemptCeiling == 3
\* Largest collection size asked for with the unconstrained catalog.
MaxItems == 4
\* Largest collection size asked for with a catalog carrying constraints
\* or explicit rarities.
MaxConstrainedItems == 2
\* Number of list entries / explicit rarity cells filled in a spreadsheet.
MaxFeatures == 3
MaxLoadFeatures == 3
\* Number of blacklist entries filled in a spreadsheet whose selections are
\* validated and audited.
MaxAuditFeatures == 2

(***************************************************************************)
(* Generic helpers.                                                        *)
(***************************************************************************)
Range(s) == {s[i] : i \in DOMAIN s}

Max(a, b) == IF a >= b THEN a ELSE b

RECURSIVE SeqSum(_)
SeqSum(s) == IF s = <<>> THEN 0 ELSE Head(s) + SeqSum(Tail(s))

\* All orders a shuffle can leave a list in.
RECURSIVE Shuffles(_)
Shuffles(s) ==
    IF s = <<>> THEN {<<>>}
    ELSE UNION {{<<s[i]>> \o r :
                   r \in Shuffles(SubSeq(s, 1, i - 1) \o SubSeq(s, i + 1, Len(s)))} :
                i \in DOMAIN s}

\* The list a Python iteration over a set of ints yields.
RECURSIVE Ascending(_)
Ascending(S) ==
    IF S = {} THEN <<>>
    ELSE LET m == CHOOSE x \in S : \A y \in S : x <= y
         IN <<m>> \o Ascending(S \ {m})

Reverse(s) == [i \in 1..Len(s) |-> s[Len(s) + 1 - i]]

SetIteration(S, order) ==
    IF order = "asc" THEN Ascending(S) ELSE Reverse(Ascending(S))

(***************************************************************************)
(* Catalog helpers.                                                        *)
(***************************************************************************)
\* Keys of all_traits_info in insertion order.
RECURSIVE TypeOrderFrom(_, _)
TypeOrderFrom(info, i) ==
    IF i > Len(info) THEN <<>>
    ELSE IF \E j \in 1..(i - 1) : info[j].type = info[i].type
         THEN TypeOrderFrom(info, i + 1)
         ELSE <<info[i].type>> \o TypeOrderFrom(info, i + 1)

\* ordered_traits (line 329)
TypeOrder(info) == TypeOrderFrom(info, 1)

\* Numbers of the traits of traits[trait_type], a set; iterated ascending.
Group(info, ty) == {n \in DOMAIN info : info[n].type = ty}

\* all_traits_info[trait_type][value]
Lookup(info, ty, name) ==
    CHOOSE n \in DOMAIN info : info[n].type = ty /\ info[n].name = name

(***************************************************************************)
(* convert_whitelist_to_blacklist (lines 107-123).                         *)
(***************************************************************************)
\* The while loop of lines 113-123 for one trait.  whitelist is the list of
\* whitelisted trait numbers still to process, blacklist the trait's set.
RECURSIVE WhitelistLoopFrom(_, _, _, _, _)
WhitelistLoopFrom(info, trait, whitelist, blacklist, check) ==
    IF whitelist = <<>> THEN [raised |-> FALSE, blacklist |-> blacklist]
    ELSE LET trait_type == info[whitelist[1]].type
         IN IF check /\ trait_type = trait.type
            THEN [raised |-> TRUE, blacklist |-> blacklist]
            ELSE LET whitelisted_traits ==
                         {w \in Range(whitelist) : info[w].type = trait_type}
                     equivalent_blacklist ==
                         {n \in Group(info, trait_type) : n \notin whitelisted_traits}
                 IN WhitelistLoopFrom(info, trait,
                        SelectSeq(whitelist, LAMBDA x : x \notin whitelisted_traits),
                        blacklist \cup equivalent_blacklist, check)

\* Mutant: the same-type test is made once, on the first entry only.
WhitelistLoop_CheckFirstOnly(info, trait, whitelist, blacklist) ==
    IF whitelist # <<>> /\ info[whitelist[1]].type = trait.type
    THEN [raised |-> TRUE, blacklist |-> blacklist]
    ELSE WhitelistLoopFrom(info, trait, whitelist, blacklist, FALSE)

\* Mutant: the whitelisted traits themselves are blacklisted.
WhitelistLoop_NotInverted(info, trait, whitelist, blacklist) ==
    IF \E w \in Range(whitelist) : info[w].type = trait.type
    THEN [raised |-> TRUE, blacklist |-> blacklist]
    ELSE [raised |-> FALSE, blacklist |-> blacklist \cup Range(whitelist)]

\* Mutant: the whitelist is ignored.
WhitelistLoop_Ignored(info, trait, whitelist, blacklist) ==
    IF \E w \in Range(whitelist) : info[w].type = trait.type
    THEN [raised |-> TRUE, blacklist |-> blacklist]
    ELSE [raised |-> FALSE, blacklist |-> blacklist]

WhitelistLoop(info, trait, whitelist, blacklist) ==
    WhitelistLoopFrom(info, trait, whitelist, blacklist, TRUE)

\* Order in which lines 110-111 visit the traits: group by group.
RECURSIVE GroupwiseFrom(_, _)
GroupwiseFrom(info, k) ==
    IF k > Len(TypeOrder(info)) THEN <<>>
    ELSE Ascending(Group(info, TypeOrder(info)[k])) \o GroupwiseFrom(info, k + 1)

Groupwise(info) == GroupwiseFrom(info, 1)

\* Lines 110-123 from the k-th trait of the visiting order on.  The result
\* is the exception raised (at most one) and the catalog as mutated so far.
RECURSIVE ConvertFrom(_, _, _, _)
ConvertFrom(info, visit, k, order) ==
    IF k > Len(visit) THEN [error |-> <<>>, info |-> info]
    ELSE LET n == visit[k]
             trait == info[n]
         IN IF \E w \in trait.whitelist : w \notin DOMAIN info
            THEN \* trait_mapping[w] of line 112 raises KeyError
                 [error |-> <<[kind |-> "KeyError", row |-> n]>>, info |-> info]
            ELSE LET r == WhitelistLoop(info, trait,
                                        SetIteration(trait.whitelist, order),
                                        trait.blacklist)
                 IN IF r.raised
                    THEN [error |-> <<[kind |-> "SameTypeWhitelist", row |-> n]>>,
                          info |-> info]
                    ELSE ConvertFrom([info EXCEPT ![n].blacklist = r.blacklist],
                                     visit, k + 1, order)

convert_whitelist_to_blacklist(info, order) ==
    ConvertFrom(info, Groupwise(info), 1, order)

(***************************************************************************)
(* load_traits_info (lines 126-218).                                       *)
(***************************************************************************)
Get(d, key) == IF key \in DOMAIN d THEN d[key] ELSE 0

Put(d, key, value) ==
    [x \in DOMAIN d \cup {key} |-> IF x = key THEN value ELSE d[x]]

\* Mutant: the two lists are not compared.
IntersectionError_NotTested(errs, row) == errs

\* Lines 177-181: the error of a row whose lists share a number.
IntersectionError(errs, row) ==
    LET intersection == row.whitelist \cap row.blacklist
    IN IF intersection # {}
       THEN Append(errs, [kind |-> "BothLists", row |-> row.number])
       ELSE errs

\* The row loop of lines 142-199 from row i on.
RECURSIVE LoadRows(_, _, _, _, _)
LoadRows(rws, i, errs, info, cumulative_weights) ==
    IF i > Len(rws)
    THEN [errors |-> errs, info |-> info, cumulative_weights |-> cumulative_weights]
    ELSE LET row == rws[i]
             weight == IF row.rarity = <<>> THEN 1 ELSE row.rarity[1]
         IN IF weight < 0
            THEN LoadRows(rws, i + 1,
                          Append(errs, [kind |-> "Rarity", row |-> row.number]),
                          info, cumulative_weights)
            ELSE LET cumulative ==
                         Put(cumulative_weights, row.type,
                             Get(cumulative_weights, row.type) + weight)
                     errs2 == IntersectionError(errs, row)
                     trait == [number |-> row.number, type |-> row.type,
                               name |-> row.name,
                               weight |-> [num |-> weight, den |-> 1],
                               blacklist |-> row.blacklist,
                               whitelist |-> row.whitelist]
                 IN IF errs2 # <<>>
                    THEN LoadRows(rws, i + 1, errs2, info, cumulative)
                    ELSE LoadRows(rws, i + 1, errs2, Append(info, trait), cumulative)

\* Lines 213-216: every weight divided by the total of its type.
Normalise(info, cumulative_weights) ==
    [n \in DOMAIN info |->
        [info[n] EXCEPT !.weight = [num |-> info[n].weight.num,
                                    den |-> cumulative_weights[info[n].type]]]]

\* load_traits_info as a whole: how it ends, the errors it printed and the
\* catalog it returned (none unless it returned).
load_traits_info(rws, order) ==
    LET loaded == LoadRows(rws, 1, <<>>, <<>>, <<>>)
        compiled == convert_whitelist_to_blacklist(loaded.info, order)
        errs == loaded.errors \o compiled.error
    IN IF errs # <<>>
       THEN [outcome |-> "exit", errors |-> errs, info |-> <<>>]
       ELSE IF \E n \in DOMAIN compiled.info :
                   loaded.cumulative_weights[compiled.info[n].type] = 0
            THEN [outcome |-> "ZeroDivisionError", errors |-> errs, info |-> <<>>]
            ELSE [outcome |-> "returned", errors |-> errs,
                  info |-> Normalise(compiled.info, loaded.cumulative_weights)]

(***************************************************************************)
(* validate_traits and validate_inscription_avoidance (lines 222-255).     *)
(***************************************************************************)
\* Mutant: no selection is rejected.
validate_traits_AcceptsAll(info, selected_traits) == TRUE

\* validate_traits; trait_number_mapping[n] is info[n].
validate_traits(info, selected_traits) ==
    \A i \in DOMAIN selected_traits :
        \A blacklist_number \in info[selected_traits[i]].blacklist :
            blacklist_number \notin Range(selected_traits)

\* Lines 226-243 for one inscription.
InscriptionInconsistencies(info, inscription, inscription_index) ==
    LET number(f) == Lookup(info, f.trait_type, f.value)
        current_inscription_trait_numbers == {number(inscription[i]) : i \in DOMAIN inscription}
        conflicting(f) == current_inscription_trait_numbers \cap info[number(f)].blacklist
        offending == SelectSeq(inscription, LAMBDA f : conflicting(f) # {})
    IN [i \in DOMAIN offending |->
           [Inscription_number |-> inscription_index,
            Trait |-> number(offending[i]),
            Conflicts |-> conflicting(offending[i])]]

RECURSIVE AvoidanceFrom(_, _, _)
AvoidanceFrom(info, collection, k) ==
    IF k > Len(collection) THEN <<>>
    ELSE InscriptionInconsistencies(info, collection[k], k)
             \o AvoidanceFrom(info, collection, k + 1)

validate_inscription_avoidance(collection, info) == AvoidanceFrom(info, collection, 1)

(***************************************************************************)
(* The sampler and the signature of generate_inscriptions.                 *)
(***************************************************************************)
\* Mutant: only the avoid list is consulted, not the candidate's blacklist.
available_traits_AvoidListOnly(info, trait_group, avoid_list, selected) ==
    {n \in Group(info, trait_group) : n \notin avoid_list}

\* available_traits (lines 292-294)
available_traits(info, trait_group, avoid_list, selected) ==
    {n \in Group(info, trait_group) :
        /\ n \notin avoid_list
        /\ info[n].blacklist \cap Range(selected) = {}}

\* Mutant: the +1 floor applies to zero-weight traits as well.
DynamicWeight_FloorForAll(info, usage, wanted, n) ==
    Max(0, wanted * info[n].weight.num - usage[n] * info[n].weight.den)
        + info[n].weight.den

\* The dynamic weight of lines 306-313, times the total raw weight of the
\* trait's type (den > 0), which keeps it an integer:
\*   max(0, wanted * num/den - count) + 1.
DynamicWeight(info, usage, wanted, n) ==
    IF info[n].weight.num = 0 THEN 0
    ELSE Max(0, wanted * info[n].weight.num - usage[n] * info[n].weight.den)
             + info[n].weight.den

\* weights (lines 300-313), in the order of available_traits.
Weights(info, usage, wanted, available) ==
    LET list == Ascending(available)
    IN [i \in DOMAIN list |-> DynamicWeight(info, usage, wanted, list[i])]

\* Mutant: the draw ignores the weights.
Choices_Unweighted(info, usage, wanted, available) == available

\* The traits random.choices can return: those of positive weight.
Choices(info, usage, wanted, available) ==
    {n \in available : DynamicWeight(info, usage, wanted, n) > 0}

\* Lines 329-331: the stable sort by position of the type in ordered_traits.
RECURSIVE SortByTypeFrom(_, _, _)
SortByTypeFrom(info, selected, k) ==
    IF k > Len(TypeOrder(info)) THEN <<>>
    ELSE SelectSeq(selected, LAMBDA n : info[n].type = TypeOrder(info)[k])
             \o SortByTypeFrom(info, selected, k + 1)

\* Mutant: the selection is left in the order the groups were visited in.
SortByType_AsVisited(info, selected) == selected

SortByType(info, selected) == SortByTypeFrom(info, selected, 1)

\* Mutant: the hash is taken over the unsorted list.
Hash_Unsorted(info, selected) ==
    [i \in DOMAIN selected |-> <<info[selected[i]].type, info[selected[i]].name>>]

\* inscription_hash (lines 332-333)
Hash(info, selected) ==
    LET sorted == SortByType(info, selected)
    IN [i \in DOMAIN sorted |-> <<info[sorted[i]].type, info[sorted[i]].name>>]

\* formatted_traits of a list of selected traits (lines 323-327).
Formatted(info, selected) ==
    LET shown == SelectSeq(selected, LAMBDA n : info[n].name # "none")
    IN [i \in DOMAIN shown |->
           [trait_type |-> info[shown[i]].type, value |-> info[shown[i]].name]]

\* Mutant: only the first selected trait is counted.
Counted_FirstOnly(usage, selected) ==
    [n \in DOMAIN usage |-> IF n = selected[1] THEN usage[n] + 1 ELSE usage[n]]

\* Lines 347-348: one more use of every selected trait.
Counted(usage, selected) ==
    [n \in DOMAIN usage |-> IF n \in Range(selected) THEN usage[n] + 1 ELSE usage[n]]

\* Lines 360-375: count and share of the type's total, per trait.
Statistics(info, usage) ==
    [n \in DOMAIN usage |->
        [count |-> usage[n],
         trait_type_count |->
             SeqSum([i \in DOMAIN Ascending(Group(info, info[n].type)) |->
                        usage[Ascending(Group(info, info[n].type))[i]]])]]

\* Mutant: only the traits shown in the item are counted.
num_traits_ShownOnly(info, selected) == Len(Formatted(info, selected))

\* num_traits (line 350)
num_traits(info, selected) == Len(selected)

\* Line 368: the share (count / trait_type_count) * 100 as printed with two
\* decimals, in hundredths of a percent.
UsagePercent(count, trait_type_count) ==
    (count * 20000 + trait_type_count) \div (2 * trait_type_count)

(***************************************************************************)
(* The spreadsheets the model is run on.                                   *)
(***************************************************************************)
\* Two types of two traits each, as create_spreadsheet lays them out
\* (every type ends with its 'none' row).
GenLayout == << <<"T1", "a">>, <<"T1", "none">>, <<"T2", "b">>, <<"T2", "none">> >>

\* Three types, the second with three traits.
LoadLayout == << <<"T1", "a">>, <<"T2", "b">>, <<"T2", "c">>, <<"T2", "d">>,
                 <<"T3", "none">> >>

\* A filled cell: an entry of a Blacklist ("B") or Whitelist ("W") cell of
\* row from naming row to, or the Rarity ("R") cell of row from set to `to'.
Cells(kinds, froms, tos) == [k : kinds, from : froms, to : tos]

WellFormed(F) ==
    \A f, g \in F : (f.k = "R" /\ g.k = "R" /\ f.from = g.from) => f = g

RECURSIVE CellSets(_, _)
CellSets(cells, k) ==
    IF k = 0 THEN {{}}
    ELSE LET smaller == CellSets(cells, k - 1)
         IN smaller \cup {F \cup {c} : F \in smaller, c \in cells}

RowsOf(layout, F) ==
    [i \in DOMAIN layout |->
        [number |-> i, type |-> layout[i][1], name |-> layout[i][2],
         rarity |-> IF \E f \in F : f.k = "R" /\ f.from = i
                    THEN <<(CHOOSE f \in F : f.k = "R" /\ f.from = i).to>>
                    ELSE <<>>,
         blacklist |-> {f.to : f \in {g \in F : g.k = "B" /\ g.from = i}},
         whitelist |-> {f.to : f \in {g \in F : g.k = "W" /\ g.from = i}}]]

\* The cells filled in the two-by-two spreadsheet: the lists of trait a
\* name any row, trait b blacklists or whitelists trait a, and three rows
\* may have rarity 0 and trait a rarity 3.
GenCells ==
    Cells({"B", "W"}, {1}, DOMAIN GenLayout)
        \cup Cells({"B", "W"}, {3}, {1})
        \cup Cells({"R"}, {1, 2, 3}, {0})
        \cup Cells({"R"}, {1}, {3})

\* The cells filled in the larger spreadsheet: the lists of traits a and b
\* name any row and any row may have rarity -1, 0 or 3.
LoadCells ==
    Cells({"B", "W"}, {1, 2}, DOMAIN LoadLayout)
        \cup Cells({"R"}, DOMAIN LoadLayout, {-1, 0, 3})

\* The cells filled in the spreadsheet whose selections are validated and
\* audited: any row blacklists any row, its own and the 'none' rows included.
AuditCells == Cells({"B"}, DOMAIN GenLayout, DOMAIN GenLayout)

(***************************************************************************)
(* Initial states.                                                         *)
(***************************************************************************)
NotStarted ==
    /\ pc = "load"
    /\ errors = <<>>
    /\ all_traits_info = <<>>
    /\ traits_usage = <<>>
    /\ generated_hashes = {}
    /\ trait_count_distribution = <<>>
    /\ inscription_collection = <<>>
    /\ items_done = 0
    /\ generation_attempts = 0
    /\ trait_types = <<>>
    /\ inscription_traits = <<>>
    /\ formatted_traits = <<>>
    /\ current_avoid_list = {}
    /\ valid_combination = TRUE
    /\ halted_early = FALSE
    /\ traits_usage_statistics = <<>>
    /\ inconsistencies = <<>>

Init ==
    /\ \E F \in {G \in CellSets(GenCells, MaxFeatures) : WellFormed(G)} :
          /\ rows = RowsOf(GenLayout, F)
          /\ num_inscriptions \in
                 1..(IF F = {} THEN MaxItems ELSE MaxConstrainedItems)
    /\ set_order = "asc"
    /\ NotStarted

InitLoad ==
    /\ \E F \in {G \in CellSets(LoadCells, MaxLoadFeatures) : WellFormed(G)} :
          rows = RowsOf(LoadLayout, F)
    /\ num_inscriptions = 1
    /\ set_order \in {"asc", "desc"}
    /\ NotStarted

InitAudit ==
    /\ \E F \in CellSets(AuditCells, MaxAuditFeatures) :
          rows = RowsOf(GenLayout, F)
    /\ num_inscriptions = 1
    /\ set_order = "asc"
    /\ NotStarted

(***************************************************************************)
(* Actions.                                                                *)
(***************************************************************************)
\* main, line 398: load_traits_info returns the catalog, or exits after
\* printing the errors, or dies of the division of line 216.
LoadTraitsInfo ==
    /\ pc = "load"
    /\ LET r == load_traits_info(rows, set_order)
       IN /\ errors' = r.errors
          /\ all_traits_info' = r.info
          /\ pc' = IF r.outcome = "returned" THEN "generate" ELSE r.outcome
    /\ UNCHANGED <<rows, set_order, num_inscriptions, traits_usage,
                   generated_hashes, trait_count_distribution,
                   inscription_collection, items_done, generation_attempts,
                   trait_types, inscription_traits, formatted_traits,
                   current_avoid_list, valid_combination, halted_early,
                   traits_usage_statistics, inconsistencies>>

\* Lines 262-275: entry of generate_inscriptions.
GenerateInscriptions ==
    /\ pc = "generate"
    /\ pc' = "for"
    /\ inscription_collection' = <<>>
    /\ traits_usage' = [n \in DOMAIN all_traits_info |-> 0]
    /\ generated_hashes' = {}
    /\ trait_count_distribution' = <<>>
    /\ UNCHANGED <<rows, set_order, num_inscriptions, errors, all_traits_info,
                   items_done, generation_attempts, trait_types,
                   inscription_traits, formatted_traits, current_avoid_list,
                   valid_combination, halted_early, traits_usage_statistics,
                   inconsistencies>>

\* Lines 277-278: the next iteration of the for loop.
NextInscription ==
    /\ pc = "for"
    /\ items_done < num_inscriptions
    /\ generation_attempts' = 0
    /\ pc' = "while"
    /\ UNCHANGED <<rows, set_order, num_inscriptions, errors, all_traits_info,
                   traits_usage, generated_hashes, trait_count_distribution,
                   inscription_collection, items_done, trait_types,
                   inscription_traits, formatted_traits, current_avoid_list,
                   valid_combination, halted_early, traits_usage_statistics,
                   inconsistencies>>

\* Lines 284-290: a fresh attempt, the groups in shuffled order.
StartAttempt ==
    /\ pc = "while"
    /\ inscription_traits' = <<>>
    /\ formatted_traits' = <<>>
    /\ current_avoid_list' = {}
    /\ valid_combination' = TRUE
    /\ trait_types' \in Shuffles(TypeOrder(all_traits_info))
    /\ pc' = "select"
    /\ UNCHANGED <<rows, set_order, num_inscriptions, errors, all_traits_info,
                   traits_usage, generated_hashes, trait_count_distribution,
                   inscription_collection, items_done, generation_attempts,
                   halted_early, traits_usage_statistics, inconsistencies>>

\* The for loop of line 291 is still running.
Sampling == pc = "select" /\ valid_combination /\ trait_types # <<>>

Candidates ==
    available_traits(all_traits_info, Head(trait_types), current_avoid_list,
                     inscription_traits)

\* Lines 296-298 and 315-317: no candidate, or weights summing to zero.
NoViableCandidate ==
    /\ Sampling
    /\ \/ Candidates = {}
       \/ SeqSum(Weights(all_traits_info, traits_usage, num_inscriptions,
                         Candidates)) = 0
    /\ valid_combination' = FALSE
    /\ UNCHANGED <<rows, set_order, num_inscriptions, pc, errors,
                   all_traits_info, traits_usage, generated_hashes,
                   trait_count_distribution, inscription_collection,
                   items_done, generation_attempts, trait_types,
                   inscription_traits, formatted_traits, current_avoid_list,
                   halted_early, traits_usage_statistics, inconsistencies>>

\* Lines 319-327: one weighted draw among the candidates of the group.
SelectTrait ==
    /\ Sampling
    /\ Candidates # {}
    /\ SeqSum(Weights(all_traits_info, traits_usage, num_inscriptions,
                      Candidates)) # 0
    /\ \E selected_trait \in Choices(all_traits_info, traits_usage,
                                     num_inscriptions, Candidates) :
          /\ current_avoid_list' =
                 current_avoid_list \cup all_traits_info[selected_trait].blacklist
          /\ inscription_traits' = Append(inscription_traits, selected_trait)
          /\ formatted_traits' =
                 Formatted(all_traits_info, Append(inscription_traits, selected_trait))
    /\ trait_types' = Tail(trait_types)
    /\ UNCHANGED <<rows, set_order, num_inscriptions, pc, errors,
                   all_traits_info, traits_usage, generated_hashes,
                   trait_count_distribution, inscription_collection,
                   items_done, generation_attempts, valid_combination,
                   halted_early, traits_usage_statistics, inconsistencies>>

\* The for loop of line 291 has ended, normally or by break.
Sampled == pc = "select" /\ (~valid_combination \/ trait_types = <<>>)

inscription_hash == Hash(all_traits_info, inscription_traits)

\* Mutant: the hash is never found among the generated ones.
AlreadyGenerated_Never == FALSE

\* inscription_hash in generated_hashes (line 334)
AlreadyGenerated == inscription_hash \in generated_hashes

\* The locals of an attempt are dead once it is over.
AttemptOver ==
    /\ trait_types' = <<>>
    /\ inscription_traits' = <<>>
    /\ formatted_traits' = <<>>
    /\ current_avoid_list' = {}
    /\ valid_combination' = TRUE

\* Mutant: the attempt is not counted.
Retry_NotCounted ==
    /\ Sampled
    /\ AlreadyGenerated \/ ~valid_combination
    /\ pc' = "while"
    /\ AttemptOver
    /\ UNCHANGED <<rows, set_order, num_inscriptions, errors, all_traits_info,
                   traits_usage, generated_hashes, trait_count_distribution,
                   inscription_collection, items_done, generation_attempts,
                   halted_early, traits_usage_statistics, inconsistencies>>

\* Lines 334-343: a seen hash or a broken-off selection is one more attempt;
\* at the ceiling the function returns what it has.
Retry ==
    /\ Sampled
    /\ AlreadyGenerated \/ ~valid_combination
    /\ generation_attempts' = generation_attempts + 1
    /\ IF generation_attempts + 1 >= AttemptCeiling
       THEN pc' = "returned" /\ halted_early' = TRUE
       ELSE pc' = "while" /\ halted_early' = halted_early
    /\ AttemptOver
    /\ UNCHANGED <<rows, set_order, num_inscriptions, errors, all_traits_info,
                   traits_usage, generated_hashes, trait_count_distribution,
                   inscription_collection, items_done,
                   traits_usage_statistics, inconsistencies>>

\* Lines 345-346 when validate_traits fails: the hash stays registered and
\* the while loop goes round again.
ValidationFailed ==
    /\ Sampled
    /\ ~(AlreadyGenerated \/ ~valid_combination)
    /\ generated_hashes' = generated_hashes \cup {inscription_hash}
    /\ ~validate_traits(all_traits_info, SortByType(all_traits_info, inscription_traits))
    /\ pc' = "while"
    /\ AttemptOver
    /\ UNCHANGED <<rows, set_order, num_inscriptions, errors, all_traits_info,
                   traits_usage, trait_count_distribution,
                   inscription_collection, items_done, generation_attempts,
                   halted_early, traits_usage_statistics, inconsistencies>>

\* Lines 345-354: the item is committed.
Commit ==
    /\ Sampled
    /\ ~(AlreadyGenerated \/ ~valid_combination)
    /\ generated_hashes' = generated_hashes \cup {inscription_hash}
    /\ validate_traits(all_traits_info, SortByType(all_traits_info, inscription_traits))
    /\ traits_usage' = Counted(traits_usage, inscription_traits)
    /\ LET n == num_traits(all_traits_info, inscription_traits)
       IN trait_count_distribution' =
              Put(trait_count_distribution, n, Get(trait_count_distribution, n) + 1)
    /\ inscription_collection' =
           Append(inscription_collection,
                  Formatted(all_traits_info,
                            SortByType(all_traits_info, inscription_traits)))
    /\ items_done' = items_done + 1
    /\ pc' = "for"
    /\ AttemptOver
    /\ UNCHANGED <<rows, set_order, num_inscriptions, errors, all_traits_info,
                   generation_attempts, halted_early, traits_usage_statistics,
                   inconsistencies>>

\* Lines 356-377: the for loop is over; shuffle, statistics, return.
Finish ==
    /\ pc = "for"
    /\ items_done >= num_inscriptions
    /\ inscription_collection' \in Shuffles(inscription_collection)
    /\ traits_usage_statistics' = Statistics(all_traits_info, traits_usage)
    /\ pc' = "returned"
    /\ UNCHANGED <<rows, set_order, num_inscriptions, errors, all_traits_info,
                   traits_usage, generated_hashes, trait_count_distribution,
                   items_done, generation_attempts, trait_types,
                   inscription_traits, formatted_traits, current_avoid_list,
                   valid_combination, halted_early, inconsistencies>>

\* main, line 404: the audit of whatever generate_inscriptions returned.
Audit ==
    /\ pc = "returned"
    /\ inconsistencies' =
           validate_inscription_avoidance(inscription_collection, all_traits_info)
    /\ pc' = "done"
    /\ UNCHANGED <<rows, set_order, num_inscriptions, errors, all_traits_info,
                   traits_usage, generated_hashes, trait_count_distribution,
                   inscription_collection, items_done, generation_attempts,
                   trait_types, inscription_traits, formatted_traits,
                   current_avoid_list, valid_combination, halted_early,
                   traits_usage_statistics>>

\* The selections of one trait per type of the groups from the k-th on, in
\* declaration order.
RECURSIVE SelectionsFrom(_, _)
SelectionsFrom(info, k) ==
    IF k > Len(TypeOrder(info)) THEN {<<>>}
    ELSE {<<n>> \o rest : n \in Group(info, TypeOrder(info)[k]),
                          rest \in SelectionsFrom(info, k + 1)}

\* Every full selection, in every order the groups can be visited in.
FullSelections(info) == UNION {Shuffles(s) : s \in SelectionsFrom(info, 1)}

\* validate_traits (as called at line 346, on the sorted selection) and
\* validate_inscription_avoidance (as called at line 404) applied to the
\* item built from one full selection, whatever the selection: the sorted
\* selection, the item's shown traits and the auditor's report are kept.
ValidateAndAudit ==
    /\ pc = "generate"
    /\ \E selection \in FullSelections(all_traits_info) :
          LET sorted == SortByType(all_traits_info, selection)
              item == Formatted(all_traits_info, sorted)
          IN /\ inscription_traits' = sorted
             /\ formatted_traits' = item
             /\ inscription_collection' = <<item>>
             /\ inconsistencies' =
                    validate_inscription_avoidance(<<item>>, all_traits_info)
    /\ pc' = "done"
    /\ UNCHANGED <<rows, set_order, num_inscriptions, errors, all_traits_info,
                   traits_usage, generated_hashes, trait_count_distribution,
                   items_done, generation_attempts, trait_types,
                   current_avoid_list, valid_combination, halted_early,
                   traits_usage_statistics>>

Next ==
    \/ LoadTraitsInfo
    \/ GenerateInscriptions
    \/ NextInscription
    \/ StartAttempt
    \/ NoViableCandidate
    \/ SelectTrait
    \/ Retry
    \/ ValidationFailed
    \/ Commit
    \/ Finish
    \/ Audit

Spec == Init /\ [][Next]_vars

\* load_traits_info alone, on the larger spreadsheet.
SpecLoad == InitLoad /\ [][LoadTraitsInfo]_vars

\* validate_traits and validate_inscription_avoidance on every full
\* selection of the catalogs load_traits_info returns.
SpecAudit == InitAudit /\ [][LoadTraitsInfo \/ ValidateAndAudit]_vars

(***************************************************************************)
(* Vocabulary of the properties.                                           *)
(***************************************************************************)
\* The full selection a committed item was built from: the trait shown for
\* a type, or the type's 'none' trait when the item shows none.
FullSelection(item) ==
    [k \in DOMAIN TypeOrder(all_traits_info) |->
        LET ty == TypeOrder(all_traits_info)[k]
        IN IF \E i \in DOMAIN item : item[i].trait_type = ty
           THEN Lookup(all_traits_info, ty,
                       (CHOOSE f \in Range(item) : f.trait_type = ty).value)
           ELSE Lookup(all_traits_info, ty, "none")]

TypeOfRow(n) == rows[n].type

\* The rows of a type, from the spreadsheet.
RowsOfType(ty) == {n \in DOMAIN rows : rows[n].type = ty}

\* What row n whitelists in type ty.
Whitelisted(n, ty) == rows[n].whitelist \cap RowsOfType(ty)

RowTypes == {rows[n].type : n \in DOMAIN rows}

Generating == pc \in {"for", "while", "select", "returned", "done"}

\* C1: in every committed item no selected trait's blacklist contains the
\* number of a trait selected for the same item ('none' selections
\* included), and the audit of the returned collection finds nothing.
C1_NoBlacklistedPair ==
    /\ Generating =>
          \A k \in DOMAIN inscription_collection :
              LET sel == FullSelection(inscription_collection[k])
              IN \A i, j \in DOMAIN sel :
                     sel[j] \notin all_traits_info[sel[i]].blacklist
    /\ pc = "done" => inconsistencies = <<>>

\* Reached: an audited collection of two items, one of them holding a trait
\* that blacklists a trait of the other type and one a 'none' selection.
C1_Witness ==
    /\ pc = "done"
    /\ Len(inscription_collection) = 2
    /\ \E k \in DOMAIN inscription_collection :
          \E n \in Range(FullSelection(inscription_collection[k])) :
              \E m \in all_traits_info[n].blacklist :
                  all_traits_info[m].type # all_traits_info[n].type
    /\ \E k \in DOMAIN inscription_collection :
          Len(inscription_collection[k]) < Len(TypeOrder(all_traits_info))

\* C2: no two items of the collection are the same combination, and the
\* hash of every item of the collection is registered.
C2_UniqueItems ==
    Generating =>
        /\ \A i, j \in DOMAIN inscription_collection :
               i # j => inscription_collection[i] # inscription_collection[j]
        /\ \A i \in DOMAIN inscription_collection :
               Hash(all_traits_info, FullSelection(inscription_collection[i]))
                   \in generated_hashes

\* Reached: a full selection whose hash is already registered is about to
\* be retried, with an item already committed.
C2_Witness ==
    /\ Sampled
    /\ valid_combination
    /\ inscription_hash \in generated_hashes
    /\ Len(inscription_collection) >= 1
    /\ generation_attempts >= 1

Terminated == pc \in {"done", "exit", "ZeroDivisionError"}

\* Some step of the program is possible.
CanStep ==
    \/ pc \in {"load", "generate", "for", "while", "returned"}
    \/ Sampled
    \/ /\ Sampling
       /\ \/ Candidates = {}
          \/ SeqSum(Weights(all_traits_info, traits_usage, num_inscriptions,
                            Candidates)) = 0
          \/ Choices(all_traits_info, traits_usage, num_inscriptions,
                     Candidates) # {}

NumTypes == Cardinality(RowTypes)

RECURSIVE Product(_)
Product(S) ==
    IF S = {} THEN 1
    ELSE LET ty == CHOOSE x \in S : TRUE
         IN Cardinality(RowsOfType(ty)) * Product(S \ {ty})

\* Number of full selections, hence of hashes that can be registered.
NumSelections == Product(RowTypes)

\* An upper bound on the attempts still to be concluded: every retry uses
\* up one of the attempts an item has, every other conclusion registers a
\* hash that was not registered.
AttemptsLeft ==
    (NumSelections - Cardinality(generated_hashes))
        + (IF pc = "for"
           THEN (num_inscriptions - items_done) * AttemptCeiling
           ELSE (num_inscriptions - items_done - 1) * AttemptCeiling
                    + (AttemptCeiling - generation_attempts))

\* A bound on the number of steps the run still takes.
StepsLeft ==
    CASE pc = "load" ->
            (num_inscriptions * AttemptCeiling + NumSelections + 1) * (NumTypes + 5) + 2
      [] pc = "generate" ->
            (num_inscriptions * AttemptCeiling + NumSelections + 1) * (NumTypes + 5) + 1
      [] pc = "for" -> AttemptsLeft * (NumTypes + 5) + NumTypes + 4
      [] pc = "while" -> AttemptsLeft * (NumTypes + 5) + NumTypes + 3
      [] pc = "select" ->
            AttemptsLeft * (NumTypes + 5) + Len(trait_types)
                + (IF valid_combination THEN 1 ELSE 0) + 1
      [] pc = "returned" -> 1
      [] OTHER -> 0

C3_State ==
    /\ Terminated \/ CanStep
    /\ StepsLeft >= 0
    /\ pc \in {"returned", "done"} =>
          \/ ~halted_early /\ Len(inscription_collection) = num_inscriptions
          \/ /\ halted_early
             /\ generation_attempts = AttemptCeiling
             /\ Len(inscription_collection) < num_inscriptions

\* C3: every run ends: every step of the program lowers a natural-number
\* bound on the steps left and no unfinished state is stuck; and a run of
\* generate_inscriptions that has returned has committed every item or has
\* gone through the attempt ceiling.
C3_Terminates ==
    /\ []C3_State
    /\ [][StepsLeft' < StepsLeft]_vars

\* Reached: two traits of different types blacklist each other, every
\* selection that could be committed already is, and the run ended at the
\* ceiling.
C3_Witness ==
    /\ pc = "done"
    /\ halted_early
    /\ generation_attempts = AttemptCeiling
    /\ \E n, m \in DOMAIN rows :
          /\ rows[m].type # rows[n].type
          /\ m \in rows[n].blacklist
          /\ n \in rows[m].blacklist
    /\ \A x \in Group(all_traits_info, "T1"), y \in Group(all_traits_info, "T2") :
          (/\ validate_traits(all_traits_info, <<x, y>>)
           /\ all_traits_info[x].weight.num # 0
           /\ all_traits_info[y].weight.num # 0) =>
              Formatted(all_traits_info, <<x, y>>) \in Range(inscription_collection)

\* Two types of two equal-weight traits, no constraints, four items asked.
PlainFour ==
    /\ \A n \in DOMAIN rows :
          rows[n].rarity = <<>> /\ rows[n].blacklist = {} /\ rows[n].whitelist = {}
    /\ num_inscriptions = 4

\* Every combination of one trait per type, as an item of the collection.
AllCombinations ==
    {Formatted(all_traits_info, <<x, y>>) :
        x \in Group(all_traits_info, "T1"), y \in Group(all_traits_info, "T2")}

\* C4 as claimed: with the plain two-by-two catalog and four items asked,
\* the run always returns the four distinct combinations, none abandoned.
C4_AlwaysSucceeds ==
    (PlainFour /\ pc \in {"returned", "done"}) =>
        /\ ~halted_early
        /\ Range(inscription_collection) = AllCombinations

\* C4 as amended: with the plain two-by-two catalog and four items asked, no
\* attempt breaks off for want of a candidate and none fails validation
\* (every registered hash is a committed item's), so every retry is a
\* duplicate; a run that is not abandoned returns the four distinct
\* combinations, and a run is abandoned only at the attempt ceiling.
C4_SucceedsUnlessCeiling ==
    (PlainFour /\ Generating) =>
        /\ valid_combination
        /\ Cardinality(generated_hashes) = Len(inscription_collection)
        /\ (pc \in {"returned", "done"} /\ ~halted_early) =>
              /\ Len(inscription_collection) = 4
              /\ Range(inscription_collection) = AllCombinations
        /\ halted_early => generation_attempts = AttemptCeiling

\* Reached: the four combinations returned after at least one retry.
C4_Witness ==
    /\ PlainFour
    /\ pc = "done"
    /\ ~halted_early
    /\ Len(inscription_collection) = 4
    /\ generation_attempts >= 1

\* Every candidate of the group being sampled has normalised weight zero.
OnlyZeroWeightCandidates ==
    /\ Sampling
    /\ Candidates # {}
    /\ \A n \in Candidates : all_traits_info[n].weight.num = 0

\* C5 as claimed: when the candidates of a type all have weight zero, the
\* sampler still selects one of them.
C5_ZeroWeightSelected ==
    [][OnlyZeroWeightCandidates =>
          /\ valid_combination'
          /\ Len(inscription_traits') = Len(inscription_traits) + 1]_vars

\* Some type has rarity 0 in every one of its rows.
AllZeroType == \E ty \in RowTypes : \A n \in RowsOfType(ty) : rows[n].rarity = <<0>>

C5_State ==
    /\ \A i \in DOMAIN inscription_traits :
          all_traits_info[inscription_traits[i]].weight.num # 0
    /\ \A k \in DOMAIN inscription_collection :
          \A n \in Range(FullSelection(inscription_collection[k])) :
              all_traits_info[n].weight.num # 0
    /\ (AllZeroType /\ pc # "load") => pc \in {"exit", "ZeroDivisionError"}

\* C5 as amended: a trait of weight zero is never selected; when the
\* candidates of a type all have weight zero the attempt breaks off with
\* nothing selected (a retry), so no committed item holds such a trait; and
\* a type whose rows all have rarity 0 ends load_traits_info before any
\* generation (the division by the zero total, unless errors were found).
C5_ZeroWeightNeverSelected ==
    /\ []C5_State
    /\ [][OnlyZeroWeightCandidates =>
             /\ ~valid_combination'
             /\ inscription_traits' = inscription_traits]_vars

\* Reached: the only candidate had weight zero and the attempt broke off.
C5_Witness ==
    /\ pc = "select"
    /\ ~valid_combination
    /\ trait_types # <<>>
    /\ Cardinality(Candidates) = 1
    /\ \A n \in Candidates : all_traits_info[n].weight.num = 0

\* C6: in the catalog load_traits_info returns, a trait that whitelists a
\* non-empty set W of traits of another type has in its blacklist, of that
\* type, exactly the traits outside W; of the types it whitelists nothing
\* in, exactly what the spreadsheet blacklisted; and every entry the
\* spreadsheet blacklisted is kept.
C6_WhitelistIsComplement ==
    pc = "generate" =>
        \A n \in DOMAIN all_traits_info :
            /\ rows[n].blacklist \subseteq all_traits_info[n].blacklist
            /\ \A ty \in RowTypes :
                  LET W == Whitelisted(n, ty)
                      compiled == all_traits_info[n].blacklist \cap RowsOfType(ty)
                  IN IF W # {} /\ ty # TypeOfRow(n)
                     THEN compiled = RowsOfType(ty) \ W
                     ELSE compiled = rows[n].blacklist \cap RowsOfType(ty)

\* Reached: trait 1 whitelists two of the three traits of the second type
\* and had a blacklist entry of its own.
C6_Witness ==
    /\ pc = "generate"
    /\ rows[1].whitelist = {2, 3}
    /\ rows[1].blacklist # {}

\* Rows whitelisting a trait of their own type.
SameTypeRows == {n \in DOMAIN rows : Whitelisted(n, TypeOfRow(n)) # {}}

\* Rows rejected by the row loop for their rarity.
BadRarityRows == {n \in DOMAIN rows : rows[n].rarity # <<>> /\ rows[n].rarity[1] < 0}

\* Rows listing a number in both lists.
BothListsRows == {n \in DOMAIN rows : rows[n].whitelist \cap rows[n].blacklist # {}}

\* C7: a spreadsheet in which some whitelist names a trait of the row's own
\* type never yields a catalog: load_traits_info exits with errors; when
\* the rows are otherwise sound the error is the same-type one, for the
\* first such trait, whatever else its whitelist holds and in whatever
\* order the entries are taken.
C7_SameTypeWhitelistFails ==
    (SameTypeRows # {} /\ pc # "load") =>
        /\ pc = "exit"
        /\ errors # <<>>
        /\ all_traits_info = <<>>
        /\ (BadRarityRows = {} /\ BothListsRows = {}) =>
              errors = <<[kind |-> "SameTypeWhitelist",
                          row |-> CHOOSE n \in SameTypeRows :
                                      \A m \in SameTypeRows : n <= m]>>

\* Reached: a whitelist holding a foreign trait, taken first, and a trait of
\* the row's own type.
C7_Witness ==
    /\ pc = "exit"
    /\ rows[2].whitelist = {1, 3}
    /\ set_order = "asc"
    /\ BadRarityRows = {}
    /\ BothListsRows = {}

\* C8: a row listing a number in both its whitelist and its blacklist makes
\* load_traits_info exit with errors and no catalog; the both-lists error
\* of the row is among them unless the row was already rejected for its
\* rarity.
C8_BothListsFails ==
    (BothListsRows # {} /\ pc # "load") =>
        /\ pc = "exit"
        /\ all_traits_info = <<>>
        /\ \A n \in BothListsRows \ BadRarityRows :
              [kind |-> "BothLists", row |-> n] \in Range(errors)

\* Reached: an exit with the both-lists error of a row.
C8_Witness ==
    /\ pc = "exit"
    /\ \E n \in BothListsRows : [kind |-> "BothLists", row |-> n] \in Range(errors)

\* C9: a trait that whitelists a non-empty set W of traits of another type
\* is never selected together with a trait of that type outside W, neither
\* in the selection of an attempt, in whichever order the two types are
\* visited, nor in a committed item.
C9_WhitelistEnforced ==
    Generating =>
        \A n \in DOMAIN rows : \A ty \in RowTypes \ {TypeOfRow(n)} :
            Whitelisted(n, ty) # {} =>
                /\ n \in Range(inscription_traits) =>
                      Range(inscription_traits) \cap RowsOfType(ty)
                          \subseteq Whitelisted(n, ty)
                /\ \A k \in DOMAIN inscription_collection :
                      LET sel == Range(FullSelection(inscription_collection[k]))
                      IN n \in sel => sel \cap RowsOfType(ty) \subseteq Whitelisted(n, ty)

\* Reached: the whitelisted type was visited first and the whitelisting
\* trait selected after it, with an item already committed.
C9_Witness ==
    /\ pc = "select"
    /\ Len(inscription_traits) = 2
    /\ Whitelisted(inscription_traits[2], TypeOfRow(inscription_traits[1])) # {}
    /\ inscription_collection # <<>>

\* C10 as claimed: a step of the attempt loop that commits no item leaves
\* the usage counts, the generated hashes, the trait-count distribution and
\* the collection as they were.
C10_FailedAttemptChangesNothing ==
    [][(pc \in {"while", "select"}
          /\ Len(inscription_collection') = Len(inscription_collection)) =>
             UNCHANGED <<traits_usage, generated_hashes,
                         trait_count_distribution, inscription_collection>>]_vars

\* Sum of the usage counts of the traits of a type.
UsageOfType(ty) ==
    LET group == Ascending(Group(all_traits_info, ty))
    IN SeqSum([i \in DOMAIN group |-> traits_usage[group[i]]])

\* Sum of the printed usage percentages of a type, in hundredths.
PercentOfType(ty) ==
    LET group == Ascending(Group(all_traits_info, ty))
    IN SeqSum([i \in DOMAIN group |->
                  UsagePercent(traits_usage_statistics[group[i]].count,
                               traits_usage_statistics[group[i]].trait_type_count)])

\* C11: while and after generate_inscriptions runs, the usage counts of the
\* traits of every type sum to the number of committed items; and in the
\* statistics of a run that committed every item the counts are the usage
\* counts, every share is taken of the number of items, and the printed
\* percentages of every type sum to 100.00 up to the rounding of each
\* (half a hundredth per trait).
C11_UsageSumsToItems ==
    /\ Generating =>
          \A ty \in RowTypes : UsageOfType(ty) = Len(inscription_collection)
    /\ (pc \in {"returned", "done"} /\ ~halted_early) =>
          /\ \A n \in DOMAIN all_traits_info :
                /\ traits_usage_statistics[n].count = traits_usage[n]
                /\ traits_usage_statistics[n].trait_type_count = num_inscriptions
          /\ \A ty \in RowTypes :
                /\ 2 * (PercentOfType(ty) - 10000) <= Cardinality(RowsOfType(ty))
                /\ 2 * (10000 - PercentOfType(ty)) <= Cardinality(RowsOfType(ty))

\* Reached: a finished run of two items in which both traits of a type were
\* used once and the other type gave the same trait twice.
C11_Witness ==
    /\ pc = "done"
    /\ ~halted_early
    /\ Len(inscription_collection) = 2
    /\ traits_usage[1] = 1 /\ traits_usage[2] = 1
    /\ \E n \in {3, 4} : traits_usage[n] = 2

\* The types of the traits of a selection, in the order of the selection.
TypesOf(selected) == [i \in DOMAIN selected |-> all_traits_info[selected[i]].type]

\* One trait of every type of the catalog and no other.
OnePerType(selected) ==
    /\ Len(selected) = NumTypes
    /\ \A ty \in RowTypes :
          Cardinality({i \in DOMAIN selected : all_traits_info[selected[i]].type = ty}) = 1

C12_State ==
    /\ pc = "select" =>
          \* the selection and the groups still to visit share out the types
          /\ \A i, j \in DOMAIN inscription_traits :
                 i # j => TypesOf(inscription_traits)[i] # TypesOf(inscription_traits)[j]
          /\ Range(TypesOf(inscription_traits)) \cap Range(trait_types) = {}
          /\ valid_combination =>
                 Range(TypesOf(inscription_traits)) \cup Range(trait_types) = RowTypes
    /\ Generating =>
          /\ \A k \in DOMAIN inscription_collection :
                 \A ty \in RowTypes :
                     Cardinality({i \in DOMAIN inscription_collection[k] :
                                     inscription_collection[k][i].trait_type = ty}) <= 1
          /\ DOMAIN trait_count_distribution =
                 IF inscription_collection = <<>> THEN {} ELSE {NumTypes}
          /\ inscription_collection # <<>> =>
                 trait_count_distribution[NumTypes] = Len(inscription_collection)

\* C12: the selection an item is committed from holds exactly one trait of
\* every type of the catalog ('none' traits included) and the item shows
\* its traits other than 'none'; the trait count recorded for every item is
\* the number of types, so the distribution table has the one entry
\* (number of types -> number of committed items).
C12_OneTraitPerType ==
    /\ []C12_State
    /\ [][Len(inscription_collection') = Len(inscription_collection) + 1 =>
             /\ OnePerType(inscription_traits)
             /\ inscription_collection'[Len(inscription_collection')] =
                    Formatted(all_traits_info,
                              SortByType(all_traits_info, inscription_traits))
             /\ Get(trait_count_distribution', NumTypes) =
                    Get(trait_count_distribution, NumTypes) + 1]_vars

\* Reached: two items committed, one of them from 'none' selections only,
\* both recorded with two traits.
C12_Witness ==
    /\ pc = "for"
    /\ Len(inscription_collection) = 2
    /\ <<>> \in Range(inscription_collection)
    /\ trait_count_distribution[2] = 2

\* The traits of positive and of zero normalised weight among the candidates.
PositiveCandidates == {n \in Candidates : all_traits_info[n].weight.num # 0}

ZeroCandidates == {n \in Candidates : all_traits_info[n].weight.num = 0}

\* The trait the step selects, if it selects one.
Selects(n) == inscription_traits' = Append(inscription_traits, n)

\* C13: a trait of normalised weight zero is among the candidates of its
\* type when no selected trait excludes it (the weight is not a filter), and
\* a draw made while a candidate of positive weight is available never
\* selects it: a step selecting a trait of weight zero is one with no
\* candidate of positive weight; so no committed item holds a trait of
\* weight zero whose type has a trait of positive weight that the rest of
\* the item allows.
C13_ZeroWeightNotPreferred ==
    /\ [](Sampling =>
            \A n \in Group(all_traits_info, Head(trait_types)) :
                (/\ all_traits_info[n].weight.num = 0
                 /\ n \notin current_avoid_list
                 /\ all_traits_info[n].blacklist \cap Range(inscription_traits) = {})
                    => n \in ZeroCandidates)
    /\ [][(Sampling /\ PositiveCandidates # {}) =>
             \A n \in ZeroCandidates : ~Selects(n)]_vars
    /\ [][\A n \in DOMAIN all_traits_info :
             (Sampling /\ Selects(n) /\ all_traits_info[n].weight.num = 0) =>
                 PositiveCandidates = {}]_vars

\* Reached: a trait was drawn from a group in which a trait of weight zero
\* and a trait of positive weight were both candidates, after another trait.
C13_Witness ==
    /\ pc = "select"
    /\ Len(inscription_traits) = 2
    /\ LET first == inscription_traits[1]
           last == inscription_traits[2]
           group == available_traits(all_traits_info, all_traits_info[last].type,
                                     all_traits_info[first].blacklist, <<first>>)
       IN /\ all_traits_info[last].weight.num # 0
          /\ \E z \in group : all_traits_info[z].weight.num = 0

\* The normalised weights of the traits of a type sum to 1: they are
\* fractions of one positive denominator whose numerators sum to it.
WeightsSumToOne(ty) ==
    LET group == Ascending(Group(all_traits_info, ty))
    IN /\ group # <<>>
       /\ \A i \in DOMAIN group :
             /\ all_traits_info[group[i]].weight.den > 0
             /\ all_traits_info[group[i]].weight.den =
                    all_traits_info[group[1]].weight.den
             /\ all_traits_info[group[i]].weight.num >= 0
       /\ SeqSum([i \in DOMAIN group |-> all_traits_info[group[i]].weight.num]) =
              all_traits_info[group[1]].weight.den

\* C14 as claimed: for every spreadsheet load_traits_info finds no error
\* in (blank rarities, rarities 0 and types whose rarities are all 0
\* included) it returns a catalog in which the normalised weights of every
\* type sum to 1.
C14_WeightsNormalised ==
    pc \notin {"load", "exit"} =>
        /\ pc = "generate"
        /\ \A ty \in RowTypes : WeightsSumToOne(ty)

\* C15 as claimed: for the item built from any full selection, the auditor
\* reports an inconsistency exactly when validate_traits rejects the
\* selection, 'none' selections included.
C15_AuditorAgreesWithValidation ==
    pc = "done" =>
        (inconsistencies # <<>>
            <=> ~validate_traits(all_traits_info, inscription_traits))

C16_State ==
    /\ pc \in {"while", "select"} => generation_attempts < AttemptCeiling
    /\ halted_early <=>
          (pc \in {"returned", "done"} /\ generation_attempts >= AttemptCeiling)

\* C16 as claimed: the attempt counter starts at 0 for every item; every
\* attempt that ends without a commit (no viable candidate, registered
\* hash or failed validation) adds exactly one to it; the run is abandoned
\* exactly when the counter reaches the ceiling; and after that no further
\* item is attempted.
C16_AttemptsCountedPerItem ==
    /\ []C16_State
    /\ [][(pc = "for" /\ pc' = "while") => generation_attempts' = 0]_vars
    /\ [][(Sampled /\ Len(inscription_collection') = Len(inscription_collection)) =>
             /\ generation_attempts' = generation_attempts + 1
             /\ halted_early' <=> generation_attempts' >= AttemptCeiling]_vars
    /\ [][halted_early =>
             (pc' = "done" /\ inscription_collection' = inscription_collection)]_vars

\* C17 as claimed: a run abandoned at the attempt ceiling returns through
\* the same finalization as a run that committed every item: the returned
\* collection holds the committed items (none lost, none added) and the
\* usage statistics are those derived from the final usage counts.
C17_EarlyHaltFinalized ==
    (pc \in {"returned", "done"} /\ halted_early) =>
        /\ Len(inscription_collection) = items_done
        /\ traits_usage_statistics = Statistics(all_traits_info, traits_usage)

\* The sampler has completed a full selection.
FullySampled == pc = "select" /\ valid_combination /\ trait_types = <<>>

\* C18: the hash of a completed selection is the hash of the same traits
\* taken in any other visiting order, and differs from the hash of every
\* full selection that differs from it in the trait of some type; it is
\* the list of the (type, name) pairs in declaration order of the types.
C18_SignatureOfSelection ==
    [](FullySampled =>
          LET hash == inscription_hash
          IN /\ \A visited \in Shuffles(inscription_traits) :
                    Hash(all_traits_info, visited) = hash
             /\ \A other \in SelectionsFrom(all_traits_info, 1) :
                    (Hash(all_traits_info, other) = hash)
                        <=> Range(other) = Range(inscription_traits)
             /\ [i \in DOMAIN hash |-> hash[i][1]] = TypeOrder(all_traits_info))

\* Reached: a full selection made with the second type visited first, its
\* hash already registered by the committed item.
C18_Witness ==
    /\ FullySampled
    /\ TypesOf(inscription_traits) = <<"T2", "T1">>
    /\ inscription_hash \in generated_hashes
    /\ Len(inscription_collection) = 1

\* C19 as claimed: every full selection the sampler completes passes
\* validate_traits, whatever the blacklists and the visiting order, so that
\* every registered hash is a committed item's: the number of generated
\* hashes is the number of committed items.
C19_CompletedSelectionsValid ==
    /\ FullySampled =>
          validate_traits(all_traits_info,
                          SortByType(all_traits_info, inscription_traits))
    /\ Generating => Cardinality(generated_hashes) = Len(inscription_collection)

====
